---------------------------- MODULE Spec2Model ----------------------------
(***************************************************************************)
(* A model of kite's JSON reader (src/src/main.rs): the tokenizer Lex, the *)
(* recursive-descent parser Par with its two-token buffer (cur, nxt) and   *)
(* the arena Allocator that owns every parsed value except the root.       *)
(*                                                                         *)
(* Text is a sequence of one-character strings.  One behaviour is one call *)
(* Par::parse(src, mem).  The recursion of go_parse is kept as an explicit *)
(* stack of activations (frames); a panic (todo!(), a failed assert!) and  *)
(* an Err are two different ways for the call to end.                      *)
(***************************************************************************)
EXTENDS Integers, Sequences, FiniteSets, TLC

VARIABLES
  src,       \* Par::parse's argument src: the text
  capacity,  \* Par::parse's argument mem: the size handed to Allocator::make
  lexpos,    \* Lex.code: index of the next character the iterator yields
  cur,       \* Par.cur
  nxt,       \* Par.nxt
  mem,       \* Par.mem: the Allocator (curr, size, vec)
  frames,    \* the go_parse activations that are inside a list or an object
  pc,        \* where the call stands
  ret,       \* the value the go_parse that returned last handed to its caller
  result,    \* what Par::parse gave back (or how the process ended)
  fetched    \* what the caller's fetch on the returned allocator gave

vars == <<src, capacity, lexpos, cur, nxt, mem, frames, pc, ret, result, fetched>>

-----------------------------------------------------------------------------
(* Bounds of the model *)

\* longest text taken from LexemeTable, in lexemes
MaxLen == 3
\* most values (root included) in a generated document; also the largest capacity
MaxNodes == 3

-----------------------------------------------------------------------------
(* Characters *)

Quote == "\""
Backslash == "\\"

Digits == {"0", "1", "2", "3", "4", "5", "6", "7", "8", "9"}

\* the letters the texts of the model can hold (is_alphanumeric accepts every
\* Unicode letter and digit)
Letters ==
  {"a", "b", "c", "d", "e", "f", "g", "h", "i", "j", "k", "l", "m",
   "n", "o", "p", "q", "r", "s", "t", "u", "v", "w", "x", "y", "z"}

IsWhitespace(chr) == chr \in {" ", "\n", "\t", "\r"}

IsAsciiDigit(chr) == chr \in Digits

IsAlphanumeric(chr) == chr \in Letters \cup Digits

-----------------------------------------------------------------------------
(* Token and JsonValue *)

TokenTypes ==
  {"Str", "Num", "False", "True", "Null", "LBrace", "RBrace", "LBracket",
   "RBracket", "Comma", "Colon", "Eof", "IllegalIdent"}

\* Token: only Str carries text (Num is never built, see LexNum)
Token(type, text) == [type |-> type, text |-> text]

Just(type) == Token(type, <<>>)

EmptyMap == [k \in {} |-> 0]

\* JsonValue: one record shape for all six variants
JsonValue(kind, s, b, list, obj) ==
  [kind |-> kind, s |-> s, b |-> b, list |-> list, obj |-> obj]

JsonString(s) == JsonValue("String", s, FALSE, <<>>, EmptyMap)
JsonBool(b) == JsonValue("Bool", <<>>, b, <<>>, EmptyMap)
JsonNull == JsonValue("Null", <<>>, FALSE, <<>>, EmptyMap)
JsonList(list) == JsonValue("List", <<>>, FALSE, list, EmptyMap)
JsonObject(obj) == JsonValue("Object", <<>>, FALSE, <<>>, obj)

\* a faulty insert that keeps the handle a key already maps to
MapInsertKeepsFirst(obj, key, id) ==
  [k \in (DOMAIN obj) \cup {key} |-> IF k \in DOMAIN obj THEN obj[k] ELSE id]

\* HashMap::insert: the key maps to the new handle, whatever it mapped to before
MapInsert(obj, key, id) ==
  [k \in (DOMAIN obj) \cup {key} |-> IF k = key THEN id ELSE obj[k]]

\* the handles a value holds
HandlesOf(v) == {v.list[i] : i \in DOMAIN v.list} \cup {v.obj[k] : k \in DOMAIN v.obj}

-----------------------------------------------------------------------------
(* Lex *)

\* what one next_token call gives: the token, the iterator's position after
\* it, and whether the call panicked instead of returning
Lexed(tok, pos) == [tok |-> tok, pos |-> pos, panic |-> FALSE]
LexPanic(pos) == [tok |-> Just("Num"), pos |-> pos, panic |-> TRUE]

\* take_while(|c| *c != '"'): index of the first '"' at or after p, or Len + 1
RECURSIVE StrEnd(_, _)
StrEnd(code, p) ==
  IF p > Len(code) \/ code[p] = Quote THEN p ELSE StrEnd(code, p + 1)

\* Lex::str: drop the opening quote, collect up to the next quote, which
\* take_while consumes too; at the end of the text the collection just stops
LexStr(code, p) ==
  LET q == StrEnd(code, p + 1)
  IN  Lexed(Token("Str", SubSeq(code, p + 1, q - 1)),
            IF q > Len(code) THEN Len(code) + 1 ELSE q + 1)

\* Lex::num: todo!()
LexNum(code, p) == LexPanic(p)

\* Lex::just
LexJust(type, p) == Lexed(Just(type), p + 1)

\* the while-let loop of Lex::ident: index of the first character at or after
\* p that is not alphanumeric, or Len + 1
RECURSIVE IdentEnd(_, _)
IdentEnd(code, p) ==
  IF p > Len(code) \/ ~IsAlphanumeric(code[p]) THEN p ELSE IdentEnd(code, p + 1)

LexIdent(code, p) ==
  LET e == IdentEnd(code, p)
      s == SubSeq(code, p, e - 1)
  IN  Lexed(IF s = <<"f", "a", "l", "s", "e">> THEN Just("False")
            ELSE IF s = <<"t", "r", "u", "e">> THEN Just("True")
            ELSE IF s = <<"n", "u", "l", "l">> THEN Just("Null")
            ELSE Just("IllegalIdent"),
            e)

\* a faulty end of stream that moves the tokenizer on each call
LexEofSteps(p) == Lexed(Just("Eof"), p + 1)

\* next_token at the end of the text: peek is None, nothing is consumed
LexEof(p) == Lexed(Just("Eof"), p)

RECURSIVE NextToken(_, _)
NextToken(code, p) ==
  IF p > Len(code) THEN LexEof(p)
  ELSE LET chr == code[p]
       IN  IF IsWhitespace(chr) THEN NextToken(code, p + 1)
           ELSE IF chr = Quote THEN LexStr(code, p)
           ELSE IF chr = ":" THEN LexJust("Colon", p)
           ELSE IF chr = "," THEN LexJust("Comma", p)
           ELSE IF chr = "[" THEN LexJust("LBracket", p)
           ELSE IF chr = "]" THEN LexJust("RBracket", p)
           ELSE IF chr = "{" THEN LexJust("LBrace", p)
           ELSE IF chr = "}" THEN LexJust("RBrace", p)
           ELSE IF IsAsciiDigit(chr) THEN LexNum(code, p)
           ELSE LexIdent(code, p)

-----------------------------------------------------------------------------
(* Allocator *)

Make(size) == [curr |-> 0, size |-> size - 1, vec |-> <<>>]

\* assert!(id < self.size)
AllocFits(m) == m.curr < m.size

\* a faulty alloc that numbers its handles from 1
AllocIdFromOne(m) == m.curr + 1

\* the Id alloc returns
AllocId(m) == m.curr

\* a faulty alloc that pushes the new value in front of the stored ones
AllocAtFront(m, el) == [curr |-> m.curr + 1, size |-> m.size, vec |-> <<el>> \o m.vec]

\* a faulty alloc that forgets self.curr += 1
AllocKeepsCurr(m, el) == [curr |-> m.curr, size |-> m.size, vec |-> Append(m.vec, el)]

Alloc(m, el) == [curr |-> m.curr + 1, size |-> m.size, vec |-> Append(m.vec, el)]

\* &self.vec[id]: in bounds or a panic
FetchInBounds(m, id) == id < Len(m.vec)

Fetch(m, id) == m.vec[id + 1]

-----------------------------------------------------------------------------
(* The texts Par::parse is called with *)

\* short texts of every kind: the characters and literals the tokenizer tells
\* apart, in any order
LexemeTable ==
  { <<"[">>, <<"]">>, <<"{">>, <<"}">>, <<",">>, <<":">>,
    <<Quote, "a", Quote>>, <<Quote>>, <<"a">>, <<"t", "r", "u", "e">>,
    <<"0">>, <<"-">>, <<" ">> }

RECURSIVE LexemeTexts(_)
LexemeTexts(n) ==
  IF n = 0 THEN {<<>>}
  ELSE LET shorter == LexemeTexts(n - 1)
       IN  shorter \cup {t \o l : t \in shorter, l \in LexemeTable}

\* documents: a value tree written out as text
Tree(k, s, items, keys) == [k |-> k, s |-> s, items |-> items, keys |-> keys]

\* string contents: a plain one, and one that holds a quote and a bracket
StrTexts == {<<"a">>, <<Quote, "]">>}

KeyTexts == {<<"a">>, <<"b">>}

Leaves == {Tree("true", <<>>, <<>>, <<>>)} \cup {Tree("str", s, <<>>, <<>>) : s \in StrTexts}

RECURSIVE TreesOfSize(_)
RECURSIVE Forests(_)
\* the trees of exactly n values
TreesOfSize(n) ==
  IF n = 1
  THEN Leaves \cup {Tree("list", <<>>, <<>>, <<>>), Tree("obj", <<>>, <<>>, <<>>)}
  ELSE {Tree("list", <<>>, f, <<>>) : f \in Forests(n - 1)}
       \cup UNION {{Tree("obj", <<>>, f, ks) : ks \in [1..Len(f) -> KeyTexts]}
                   : f \in Forests(n - 1)}

\* the non-empty sequences of trees of n values in all
Forests(n) ==
  UNION {{<<t>> \o r : t \in TreesOfSize(k),
                       r \in (IF k = n THEN {<<>>} ELSE Forests(n - k))}
         : k \in 1..n}

Documents == UNION {TreesOfSize(n) : n \in 1..MaxNodes}

RECURSIVE Nodes(_)
RECURSIVE NodesOfAll(_)
Nodes(t) == 1 + NodesOfAll(t.items)

NodesOfAll(ts) == IF ts = <<>> THEN 0 ELSE Nodes(Head(ts)) + NodesOfAll(Tail(ts))

\* a string's content as JSON writes it: a quote and a backslash are escaped
RECURSIVE Escape(_)
Escape(s) ==
  IF s = <<>> THEN <<>>
  ELSE (IF Head(s) \in {Quote, Backslash} THEN <<Backslash, Head(s)>> ELSE <<Head(s)>>)
       \o Escape(Tail(s))

StrLiteral(s) == <<Quote>> \o Escape(s) \o <<Quote>>

\* how the commas of a document are written: as JSON has them, or with one
\* before the first element, one after the last, or none at all
Styles == {"proper", "leading", "trailing", "missing"}

RECURSIVE Render(_, _)
RECURSIVE RenderItems(_, _, _, _)
Render(t, style) ==
  IF t.k = "true" THEN <<"t", "r", "u", "e">>
  ELSE IF t.k = "str" THEN StrLiteral(t.s)
  ELSE LET open == IF t.k = "list" THEN "[" ELSE "{"
           close == IF t.k = "list" THEN "]" ELSE "}"
           body == RenderItems(t, 1, style, <<>>)
       IN  <<open>>
           \o (IF style = "leading" /\ t.items # <<>> THEN <<",">> ELSE <<>>)
           \o body
           \o (IF style = "trailing" /\ t.items # <<>> THEN <<",">> ELSE <<>>)
           \o <<close>>

\* the elements of t from the i-th on, appended to acc
RenderItems(t, i, style, acc) ==
  IF i > Len(t.items) THEN acc
  ELSE LET sep == IF i = 1 THEN <<>>
                  ELSE IF style = "missing" THEN <<" ">> ELSE <<",">>
           key == IF t.k = "obj" THEN StrLiteral(t.keys[i]) \o <<":">> ELSE <<>>
       IN  RenderItems(t, i + 1, style, acc \o sep \o key \o Render(t.items[i], style))

DocTexts == {Render(t, style) : t \in Documents, style \in Styles}

Inputs == LexemeTexts(MaxLen) \cup DocTexts

\* Allocator::make asserts size > 0: the caller's side of the contract
Capacities == 1..MaxNodes

-----------------------------------------------------------------------------
(* Par *)

NoResult == [status |-> "None", msg |-> "", value |-> JsonNull]

\* a go_parse activation inside `[` (list) or `{` (obj, with the key just read)
Frame(kind, list, obj, key) == [kind |-> kind, list |-> list, obj |-> obj, key |-> key]

Top == frames[Len(frames)]

Pop == SubSeq(frames, 1, Len(frames) - 1)

ReplaceTop(f) == [frames EXCEPT ![Len(frames)] = f]

TodoMsg == "not yet implemented"
AllocMsg == "assertion failed: id < self.size"
EofMsg == "Reached EOF."
ColonMsg == "Expected ':'."
KeyMsg == "Key is not a String"

NoFetch == [status |-> "None", id |-> 0]

Init ==
  /\ src \in Inputs
  /\ capacity \in Capacities
  /\ lexpos = 1
  /\ cur = Just("Eof")
  /\ nxt = Just("Eof")
  /\ mem = [curr |-> 0, size |-> 0, vec |-> <<>>]
  /\ frames = <<>>
  /\ pc = "parse"
  /\ ret = JsonNull
  /\ result = NoResult
  /\ fetched = NoFetch

\* the process aborts: a todo!() or a failed assert!
Panic(m) ==
  /\ pc' = "done"
  /\ result' = [status |-> "Panic", msg |-> m, value |-> JsonNull]
  /\ UNCHANGED <<fetched, src, capacity, lexpos, cur, nxt, mem, frames, ret>>

\* an Err: every go_parse on the stack hands it on with `?`, and so does parse
Fail(m) ==
  /\ pc' = "done"
  /\ result' = [status |-> "Err", msg |-> m, value |-> JsonNull]
  /\ frames' = <<>>
  /\ UNCHANGED <<fetched, src, capacity, lexpos, cur, nxt, mem, ret>>

\* a faulty advance that does its two swaps in the other order: the fresh
\* token lands in cur and the old cur in nxt
AdvanceSwapsWrongly ==
  LET lx == NextToken(src, lexpos)
  IN  /\ cur' = lx.tok
      /\ nxt' = cur
      /\ lexpos' = lx.pos

\* Par::advance, when its next_token call returns
Advance ==
  LET lx == NextToken(src, lexpos)
  IN  /\ cur' = nxt
      /\ nxt' = lx.tok
      /\ lexpos' = lx.pos

\* Par::advance's next_token call panics
AdvancePanics == NextToken(src, lexpos).panic

\* Par::init, the first statement of Par::parse
ParInit ==
  /\ pc = "parse"
  /\ LET first == NextToken(src, lexpos)
         second == NextToken(src, first.pos)
     IN  IF first.panic \/ second.panic
         THEN Panic(TodoMsg)
         ELSE /\ cur' = first.tok
              /\ nxt' = second.tok
              /\ lexpos' = second.pos
              /\ mem' = Make(capacity)
              /\ pc' = "go_parse"
              /\ UNCHANGED <<fetched, src, capacity, frames, ret, result>>

ScalarTypes == {"False", "True", "Null", "Str", "Num"}

TodoTypes == {"RBracket", "RBrace", "Comma", "Colon", "IllegalIdent"}

ScalarValue(tok) ==
  IF tok.type = "False" THEN JsonBool(FALSE)
  ELSE IF tok.type = "True" THEN JsonBool(TRUE)
  ELSE IF tok.type = "Null" THEN JsonNull
  ELSE JsonString(tok.text)

\* go_parse on a scalar token: the value, then self.advance(), then return
GoParseScalar ==
  /\ pc = "go_parse"
  /\ cur.type \in ScalarTypes
  /\ IF AdvancePanics
     THEN Panic(TodoMsg)
     ELSE /\ Advance
          /\ ret' = ScalarValue(cur)
          /\ pc' = "return"
          /\ UNCHANGED <<fetched, src, capacity, mem, frames, result>>

\* go_parse on `[`: a new list, self.advance(), into the loop
GoParseLBracket ==
  /\ pc = "go_parse"
  /\ cur.type = "LBracket"
  /\ IF AdvancePanics
     THEN Panic(TodoMsg)
     ELSE /\ Advance
          /\ frames' = Append(frames, Frame("List", <<>>, EmptyMap, <<>>))
          /\ pc' = "list_loop"
          /\ UNCHANGED <<fetched, src, capacity, mem, ret, result>>

\* one pass over the head of the list loop: break on `]` (and then the
\* self.advance() after the match, and return), step over a comma, and call
\* go_parse for the element
ListLoop ==
  /\ pc = "list_loop"
  /\ IF cur.type = "RBracket"
     THEN IF AdvancePanics
          THEN Panic(TodoMsg)
          ELSE /\ Advance
               /\ ret' = JsonList(Top.list)
               /\ frames' = Pop
               /\ pc' = "return"
               /\ UNCHANGED <<fetched, src, capacity, mem, result>>
     ELSE IF cur.type = "Comma"
          THEN IF AdvancePanics
               THEN Panic(TodoMsg)
               ELSE /\ Advance
                    /\ pc' = "go_parse"
                    /\ UNCHANGED <<fetched, src, capacity, mem, frames, ret, result>>
          ELSE /\ pc' = "go_parse"
               /\ UNCHANGED <<fetched, src, capacity, lexpos, cur, nxt, mem, frames, ret, result>>

\* go_parse on `{`
GoParseLBrace ==
  /\ pc = "go_parse"
  /\ cur.type = "LBrace"
  /\ IF AdvancePanics
     THEN Panic(TodoMsg)
     ELSE /\ Advance
          /\ frames' = Append(frames, Frame("Object", <<>>, EmptyMap, <<>>))
          /\ pc' = "obj_loop"
          /\ UNCHANGED <<fetched, src, capacity, mem, ret, result>>

\* the head of the object loop: break on `}`, step over a comma, go on to the key
ObjLoop ==
  /\ pc = "obj_loop"
  /\ IF cur.type = "RBrace"
     THEN IF AdvancePanics
          THEN Panic(TodoMsg)
          ELSE /\ Advance
               /\ ret' = JsonObject(Top.obj)
               /\ frames' = Pop
               /\ pc' = "return"
               /\ UNCHANGED <<fetched, src, capacity, mem, result>>
     ELSE IF cur.type = "Comma"
          THEN IF AdvancePanics
               THEN Panic(TodoMsg)
               ELSE /\ Advance
                    /\ pc' = "expect_str"
                    /\ UNCHANGED <<fetched, src, capacity, mem, frames, ret, result>>
          ELSE /\ pc' = "expect_str"
               /\ UNCHANGED <<fetched, src, capacity, lexpos, cur, nxt, mem, frames, ret, result>>

\* Par::expect_str, called for the key
ExpectStr ==
  /\ pc = "expect_str"
  /\ IF cur.type # "Str"
     THEN Fail(KeyMsg)
     ELSE IF AdvancePanics
          THEN Panic(TodoMsg)
          ELSE /\ Advance
               /\ frames' = ReplaceTop([Top EXCEPT !.key = cur.text])
               /\ pc' = "colon"
               /\ UNCHANGED <<fetched, src, capacity, mem, ret, result>>

\* the colon after the key, then the call of go_parse for the member's value
ExpectColon ==
  /\ pc = "colon"
  /\ IF cur.type # "Colon"
     THEN Fail(ColonMsg)
     ELSE IF AdvancePanics
          THEN Panic(TodoMsg)
          ELSE /\ Advance
               /\ pc' = "go_parse"
               /\ UNCHANGED <<fetched, src, capacity, mem, frames, ret, result>>

\* a faulty go_parse that skips a token it has no arm for and tries again
GoParseTodoSkips ==
  /\ pc = "go_parse"
  /\ cur.type \in TodoTypes
  /\ IF AdvancePanics
     THEN Panic(TodoMsg)
     ELSE /\ Advance
          /\ UNCHANGED <<fetched, src, capacity, mem, frames, pc, ret, result>>

\* go_parse on `]`, `}`, `,`, `:` or an unrecognized identifier: todo!()
GoParseTodo ==
  /\ pc = "go_parse"
  /\ cur.type \in TodoTypes
  /\ Panic(TodoMsg)

\* go_parse at the end of the text
GoParseEof ==
  /\ pc = "go_parse"
  /\ cur.type = "Eof"
  /\ Fail(EofMsg)

\* the caller of a go_parse that returned Ok, inside a list: alloc and push
AllocElement ==
  /\ pc = "return"
  /\ frames # <<>>
  /\ Top.kind = "List"
  /\ IF ~AllocFits(mem)
     THEN Panic(AllocMsg)
     ELSE /\ mem' = Alloc(mem, ret)
          /\ frames' = ReplaceTop([Top EXCEPT !.list = Append(@, AllocId(mem))])
          /\ pc' = "list_loop"
          /\ UNCHANGED <<fetched, src, capacity, lexpos, cur, nxt, ret, result>>

\* the same inside an object: alloc and insert under the key
AllocMember ==
  /\ pc = "return"
  /\ frames # <<>>
  /\ Top.kind = "Object"
  /\ IF ~AllocFits(mem)
     THEN Panic(AllocMsg)
     ELSE /\ mem' = Alloc(mem, ret)
          /\ frames' = ReplaceTop([Top EXCEPT !.obj = MapInsert(@, Top.key, AllocId(mem))])
          /\ pc' = "obj_loop"
          /\ UNCHANGED <<fetched, src, capacity, lexpos, cur, nxt, ret, result>>

\* the outermost go_parse returned Ok: Par::parse returns Ok((result, parser.mem))
ParseOk ==
  /\ pc = "return"
  /\ frames = <<>>
  /\ pc' = "done"
  /\ result' = [status |-> "Ok", msg |-> "", value |-> ret]
  /\ UNCHANGED <<fetched, src, capacity, lexpos, cur, nxt, mem, frames, ret>>

\* Id::id: any caller makes a handle of any index
Id(id) == id

\* the indexes the caller tries
CallerIds == 0..MaxNodes

\* the caller of Par::parse, holding the allocator of an Ok, calls
\* fetch(Id::id(n)): a reference to the stored value, or the panic of an index
\* out of bounds
CallerFetch ==
  /\ pc = "done"
  /\ result.status = "Ok"
  /\ fetched.status = "None"
  /\ \E n \in CallerIds :
       fetched' = [status |-> IF FetchInBounds(mem, Id(n)) THEN "Value" ELSE "Panic",
                   id |-> Id(n)]
  /\ UNCHANGED <<src, capacity, lexpos, cur, nxt, mem, frames, pc, ret, result>>

Next ==
  \/ CallerFetch
  \/ ParInit
  \/ GoParseScalar
  \/ GoParseLBracket
  \/ ListLoop
  \/ GoParseLBrace
  \/ ObjLoop
  \/ ExpectStr
  \/ ExpectColon
  \/ GoParseTodo
  \/ GoParseEof
  \/ AllocElement
  \/ AllocMember
  \/ ParseOk

Spec == Init /\ [][Next]_vars

\* Par::parse is a synchronous call on the calling thread: while it has not
\* returned or aborted, its next step is taken
FairSpec == Init /\ [][Next]_vars /\ WF_vars(pc # "done" /\ Next)

-----------------------------------------------------------------------------
(* What the claims speak of *)

Done == pc = "done"

Ok == Done /\ result.status = "Ok"

Failed == Done /\ result.status = "Err"

Aborted == Done /\ result.status = "Panic"

\* the JSON documents among the inputs, each with the number of its values
\* other than the root
ProperDocs == {[text |-> Render(t, "proper"), allocs |-> Nodes(t) - 1] : t \in Documents}

NoEscapes(code) == \A i \in DOMAIN code : code[i] # Backslash

\* a document written in a comma style, with the number of its values other
\* than the root
Written(t, style) == [text |-> Render(t, style), allocs |-> Nodes(t) - 1]

\* lists of `true`s at the root whose commas are misplaced
FlatListTrees == {t \in Documents : t.k = "list" /\ \A i \in DOMAIN t.items : t.items[i].k = "true"}

MisplacedCommaLists ==
  {Written(t, "leading") : t \in {u \in FlatListTrees : Len(u.items) >= 1}}
  \cup {Written(t, "trailing") : t \in {u \in FlatListTrees : Len(u.items) >= 1}}
  \cup {Written(t, "missing") : t \in {u \in FlatListTrees : Len(u.items) >= 2}}

\* the same for objects at the root
FlatObjTrees == {t \in Documents : t.k = "obj" /\ \A i \in DOMAIN t.items : t.items[i].k = "true"}

MisplacedCommaObjects ==
  {Written(t, "leading") : t \in {u \in FlatObjTrees : Len(u.items) >= 1}}
  \cup {Written(t, "trailing") : t \in {u \in FlatObjTrees : Len(u.items) >= 1}}
  \cup {Written(t, "missing") : t \in {u \in FlatObjTrees : Len(u.items) >= 2}}

\* every handle held by the root or by a stored value
AllHandles(root, m) == HandlesOf(root) \cup UNION {HandlesOf(m.vec[i]) : i \in DOMAIN m.vec}

\* the handle the caller of alloc has just stored
IssuedHandle ==
  IF Top.kind = "List" THEN Top.list[Len(Top.list)] ELSE Top.obj[Top.key]

AllocCalled == pc = "return" /\ frames # <<>>

-----------------------------------------------------------------------------
(* The claims *)

\* C1: capacity means capacity: a JSON document (here: one without escapes)
\* that needs K > 0 arena allocations parses successfully when Par::parse is
\* given capacity exactly K.
C1_ExactCapacitySuffices ==
  \A d \in ProperDocs :
    (Done /\ src = d.text /\ NoEscapes(src) /\ capacity = d.allocs)
      => result.status = "Ok"

\* C2: whenever alloc is called on a pool that can take no more values, the
\* parse ends with an Err; the process does not abort.
C2_ExhaustionIsAnError ==
  [][(AllocCalled /\ ~AllocFits(mem)) => result'.status = "Err"]_vars

\* C3: whenever go_parse is entered with the current token `]`, `}`, `,`, `:`,
\* an unrecognized identifier or end-of-stream, the parse ends with an Err
\* and the token is not consumed.
C3_NoValueIsAnError ==
  [][(pc = "go_parse" /\ cur.type \in TodoTypes \cup {"Eof"})
       => (result'.status = "Err" /\ cur' = cur /\ lexpos' = lexpos)]_vars

\* C4: a list with a leading comma, a comma directly before `]` or two
\* elements with no comma between them is rejected with an error, never
\* accepted, also when the arena has room for more values than the list has
\* elements.  (The code's errors are untyped strings and none of them stands
\* for UnexpectedToken, so the kind is not compared.)
C4_ListCommasAreChecked ==
  \A d \in MisplacedCommaLists :
    (Done /\ src = d.text /\ capacity > d.allocs) => result.status = "Err"

\* C5: an object with a leading comma, a comma directly before `}` or two
\* members with no comma between them is rejected with an error, never
\* accepted, also when the arena has room for more values than the object has
\* members.
C5_ObjectCommasAreChecked ==
  \A d \in MisplacedCommaObjects :
    (Done /\ src = d.text /\ capacity > d.allocs) => result.status = "Err"

\* C6: when a JSON document parses successfully, the returned allocator holds
\* as many values as the document has values other than the root.
C6_AllocationsCountValues ==
  \A d \in ProperDocs : (Ok /\ src = d.text) => Len(mem.vec) = d.allocs

\* C7: when Par::parse returns Ok((root, allocator)), every handle in root
\* and in every stored value is smaller than the number of stored values, so
\* fetch succeeds on it.
C7_HandlesResolve ==
  Ok => \A h \in AllHandles(result.value, mem) : FetchInBounds(mem, h)

C7_Witness ==
  /\ Ok
  /\ HandlesOf(result.value) # {}
  /\ \E i \in DOMAIN mem.vec : HandlesOf(mem.vec[i]) # {}

\* C8: every successful alloc appends exactly one value, the one it was
\* given, and returns the number of values stored before the call as its
\* handle; no step changes or removes a value already stored.
C8_AllocAppendsInOrder ==
  [][/\ SubSeq(mem'.vec, 1, Len(mem.vec)) = mem.vec
     /\ Len(mem'.vec) \in {Len(mem.vec), Len(mem.vec) + 1}
     /\ (AllocCalled /\ result'.status # "Panic")
          => /\ mem'.vec = Append(mem.vec, ret)
             /\ IssuedHandle' = Len(mem.vec)
     /\ ~AllocCalled => mem'.vec = mem.vec]_vars

C8_Witness ==
  /\ Len(mem.vec) = 2
  /\ pc \in {"list_loop", "obj_loop"}
  /\ IssuedHandle = 1

\* C9: in an object at the root, when the token in the first key position is
\* not a string (nor `}` nor a comma), the parse fails with the key error
\* ("Key is not a String" in the code).
KeyPositionNotString(code) ==
  /\ Len(code) >= 1
  /\ code[1] = "{"
  /\ (Len(code) = 1 \/ code[2] \notin {Quote, "}", ",", " "})

C9_KeyMustBeString ==
  (Done /\ KeyPositionNotString(src)) => (result.status = "Err" /\ result.msg = KeyMsg)

\* C10: lexical errors are errors, not crashes and not successes: a text that
\* is one string literal with no closing quote fails, the malformed number 00
\* fails, and the well-formed number 0 does not abort.
UnterminatedStringText(code) ==
  /\ Len(code) >= 1
  /\ code[1] = Quote
  /\ \A i \in 2..Len(code) : code[i] # Quote

C10_LexicalErrorsAreTyped ==
  /\ (Done /\ UnterminatedStringText(src)) => result.status = "Err"
  /\ (Done /\ src = <<"0", "0">>) => result.status = "Err"
  /\ (Done /\ src = <<"0">>) => result.status # "Panic"

\* C11: duplicate keys are last-write-wins: an object whose members are all
\* `true` parses to an Object that maps each key once, to the handle of the
\* value of the key's last occurrence (the i-th member's value gets handle
\* i - 1).
LastOccurrence(ks, k) ==
  CHOOSE i \in DOMAIN ks : ks[i] = k /\ \A j \in DOMAIN ks : ks[j] = k => j <= i

FlatObjTexts == {Render(t, "proper") : t \in FlatObjTrees}

C11_LastKeyWins ==
  (Ok /\ src \in FlatObjTexts)
    => \A t \in FlatObjTrees :
         src = Render(t, "proper")
           => /\ result.value.kind = "Object"
              /\ DOMAIN result.value.obj = {t.keys[i] : i \in DOMAIN t.keys}
              /\ \A k \in DOMAIN result.value.obj :
                   result.value.obj[k] = LastOccurrence(t.keys, k) - 1

C11_Witness ==
  /\ Ok
  /\ \E t \in FlatObjTrees :
       /\ src = Render(t, "proper")
       /\ Len(t.keys) >= 2
       /\ t.keys[1] = t.keys[2]

\* C12: fetch never fails on a handle the caller can get hold of.
C12_FetchNeverFails == fetched.status # "Panic"

\* C13: the tokenizer makes progress: wherever the tokenizer stands while
\* the parse runs, a next_token call that returns a token other than
\* end-of-stream leaves the iterator further on in the text.
C13_TokensConsumeInput ==
  pc # "done"
    => LET lx == NextToken(src, lexpos)
       IN  (~lx.panic /\ lx.tok.type # "Eof") => lx.pos > lexpos

\* C14: the parser sees the tokens in order through its buffer: Par::init
\* leaves the first token in cur and the second in nxt, every step that calls
\* advance moves the buffer on by exactly one token of the tokenizer's
\* sequence, and no other step touches it.
RECURSIVE PosAfter(_, _)
\* where the iterator stands after k calls of next_token on a fresh tokenizer
PosAfter(code, k) ==
  IF k = 0
  THEN 1
  ELSE CHOOSE q \in {NextToken(code, p).pos : p \in {PosAfter(code, k - 1)}} : TRUE

\* the k-th token of the text
NthToken(code, k) ==
  CHOOSE t \in {NextToken(code, p).tok : p \in {PosAfter(code, k - 1)}} : TRUE

RECURSIVE TokensFrom(_, _, _)
\* what n calls of next_token return, one after the other, from position p
TokensFrom(code, p, n) ==
  IF n = 0
  THEN <<>>
  ELSE LET lx == NextToken(code, p)
       IN  <<lx>> \o TokensFrom(code, lx.pos, n - 1)

Buffer == <<cur, nxt, lexpos>>

\* the buffer <<c, n, p>> holds tokens k and k + 1 of the run
BufferIs(run, k, c, n, p) ==
  /\ c = run[k].tok
  /\ n = run[k + 1].tok
  /\ p = run[k + 1].pos

BufferAt(k) == BufferIs(TokensFrom(src, 1, k + 1), k, cur, nxt, lexpos)

RECURSIVE AdvancesAlong(_, _, _, _)
\* a and b are tokens k and k + 1 of the text as next_token returned them:
\* the step moves the buffer on by one token, from tokens k and k + 1 or from
\* a pair at most n tokens later
AdvancesAlong(code, a, b, n) ==
  LET c == NextToken(code, b.pos)
  IN  \/ /\ cur = a.tok /\ nxt = b.tok /\ lexpos = b.pos
         /\ cur' = b.tok /\ nxt' = c.tok /\ lexpos' = c.pos
      \/ n > 0 /\ AdvancesAlong(code, b, c, n - 1)

\* the steps in which advance returns
Advances ==
  /\ result'.status # "Panic"
  /\ \/ pc = "go_parse" /\ pc' \in {"return", "list_loop", "obj_loop"}
     \/ pc \in {"list_loop", "obj_loop"} /\ pc' = "return"
     \/ pc \in {"list_loop", "obj_loop"} /\ cur.type = "Comma"
     \/ pc = "expect_str" /\ pc' = "colon"
     \/ pc = "colon" /\ pc' = "go_parse"

C14_BufferFollowsTokens ==
  [][IF pc = "parse"
     THEN pc' = "go_parse"
            => \E run \in {TokensFrom(src, 1, 2)} : BufferIs(run, 1, cur', nxt', lexpos')
     ELSE IF Advances
          THEN LET first == NextToken(src, 1)
               IN  AdvancesAlong(src, first, NextToken(src, first.pos), Len(src) + 1)
          ELSE Buffer' = Buffer]_vars

C14_Witness ==
  /\ pc # "done"
  /\ BufferAt(3)
  /\ Cardinality({NthToken(src, 1).type, NthToken(src, 2).type, cur.type, nxt.type}) = 4

\* C15: end of stream is idempotent: once next_token has returned Eof (the
\* lookahead holds it), every later next_token call returns Eof again and
\* leaves the tokenizer where it was, so reads past the end only yield Eof.
C15_EofIsIdempotent ==
  [][(pc # "parse" /\ nxt.type = "Eof")
       => /\ NextToken(src, lexpos) = Lexed(Just("Eof"), lexpos)
          /\ nxt'.type = "Eof"
          /\ lexpos' = lexpos
          /\ cur' \in {cur, nxt}]_vars

\* the parser has advanced past the end of a non-empty text
C15_Witness ==
  /\ Len(src) > 0
  /\ pc \notin {"parse", "done"}
  /\ result.status = "None"
  /\ cur.type = "Eof"
  /\ nxt.type = "Eof"

\* C16: every parse terminates: for every text and every capacity, the call
\* of Par::parse reaches a final outcome (Ok, Err or an abort) after finitely
\* many steps.
C16_ParseTerminates == <>(pc = "done")

\* a parse that went round the list loop twice and returned
C16_Witness ==
  /\ Ok
  /\ result.value.kind = "List"
  /\ Len(result.value.list) >= 2

\* C17: a successful parse has consumed the whole token sequence: when
\* Par::parse returns Ok, the token after the root value is end-of-stream.
C17_OkConsumesAllTokens == Ok => cur.type = "Eof"

\* C18: children are allocated before their parent: in every state of a
\* parse, every handle held by the value stored at arena index i (list
\* elements, object member values) is an index strictly smaller than i.
C18_ChildrenBeforeParent ==
  \A i \in DOMAIN mem.vec :
    \A h \in HandlesOf(mem.vec[i]) : h < i - 1

\* a container with a child is stored in the arena
C18_Witness ==
  \E i \in DOMAIN mem.vec :
    /\ mem.vec[i].kind \in {"List", "Object"}
    /\ HandlesOf(mem.vec[i]) # {}

\* how many handles of slot h the value v holds
RefsIn(v, h) ==
  Cardinality({i \in DOMAIN v.list : v.list[i] = h})
    + Cardinality({k \in DOMAIN v.obj : v.obj[k] = h})

RECURSIVE RefsInSlots(_, _, _)
\* how many handles of slot h the first n stored values hold
RefsInSlots(m, n, h) ==
  IF n = 0 THEN 0 ELSE RefsIn(m.vec[n], h) + RefsInSlots(m, n - 1, h)

\* how many handles of slot h the caller's (root, allocator) pair holds
RefCount(h) == RefsIn(result.value, h) + RefsInSlots(mem, Len(mem.vec), h)

Slots == 0..(Len(mem.vec) - 1)

\* the k-th token of the text is a member key: a string before a colon
KeyAt(k) == NthToken(src, k).type = "Str" /\ NthToken(src, k + 1).type = "Colon"

\* two member keys of the text have the same content
DupKeyInText ==
  \E ks \in {{k \in 1..Len(src) : KeyAt(k)}} :
    \E i, j \in ks : i < j /\ NthToken(src, i).text = NthToken(src, j).text

RECURSIVE NoDupKeys(_)
\* no object of the document has two members of the same key
NoDupKeys(t) ==
  /\ t.k = "obj" => \A i, j \in DOMAIN t.keys : t.keys[i] = t.keys[j] => i = j
  /\ \A i \in DOMAIN t.items : NoDupKeys(t.items[i])

\* C19 as stated: when Par::parse returns Ok, every value stored in the
\* allocator is referenced by exactly one handle, held by the root or by one
\* other stored value.
C19_EverySlotHasOneHandle ==
  Ok => \A h \in Slots : RefCount(h) = 1

\* C19 amended: when Par::parse returns Ok, no stored value is referenced by
\* two handles, and every stored value is referenced by one handle unless a
\* member key is repeated: a member overwritten by a later member of the same
\* key (last write wins) stays in the allocator with no handle to it.
DistinctKeyTexts == {Render(t, "proper") : t \in {u \in Documents : NoDupKeys(u)}}

C19_NoSlotIsShared ==
  Ok => \/ \A h \in Slots : RefCount(h) = 1
        \/ /\ \A h \in Slots : RefCount(h) <= 1
           /\ src \notin DistinctKeyTexts
           /\ DupKeyInText

\* a returned tree two levels deep, every slot of it referenced
C19_Witness ==
  /\ Ok
  /\ ~DupKeyInText
  /\ \E i \in DOMAIN mem.vec : HandlesOf(mem.vec[i]) # {}

=============================================================================
